---- MODULE Spec2Model ----
(***************************************************************************)
(* benchkit.timeout: a decorator that runs a function in a persistent,     *)
(* lazily started worker subprocess under a wall-clock deadline.           *)
(*                                                                         *)
(* The model has the guard's construction (timeout, deco), the Worker      *)
(* object's slot (proc, conn), the worker processes with their pipes, and  *)
(* the caller threads walking through wrapper / Worker.call /              *)
(* Worker.restart / Worker.kill one statement at a time.                   *)
(*                                                                         *)
(* benchkit.loops (repeat, retry, foreach), benchkit.foreach,              *)
(* benchkit.cache and benchkit.caching are modelled next to it, each with  *)
(* its own variables and its own specification.                            *)
(***************************************************************************)
EXTENDS Integers, Sequences, FiniteSets, TLC

\* ------------------------------------------------------------- bounds
MaxPid == 6          \* worker processes that may be spawned in one run
MaxCalls == 4        \* guarded calls that may be begun in one run
MaxThreadPid == 4    \* the same two bounds, for the runs with two caller threads
MaxThreadCalls == 2
MaxWorkerPid == 4    \* the same two bounds, for the runs that call Worker's methods
MaxWorkerCalls == 3
MaxN == 4            \* the largest n given to repeat() and retry()
MaxRows == 2         \* the longest iterable given to foreach()
MaxMinHits == 3      \* the largest min_hits given to benchkit.cache.cache()
MaxCacheCalls == 4   \* calls of a function cached by benchkit.cache in one run
MaxTtl == 2          \* the largest ttl given to benchkit.caching.cache()
MaxTime == 3         \* the latest reading of the clock
MaxTtlCalls == 3     \* calls of a function cached by benchkit.caching in one run
MaxSaves == 3        \* results a benchmark's directory may hold at one time
MaxInputs == 2       \* the longest list of inputs given to run_benchmark_batch
MaxRepeats == 2      \* the largest repeats given to run_benchmark_batch

Pids == 1..MaxPid

\* The caller threads; the sequential specification moves only the first.
Threads == {1, 2}

\* ------------------------------------------------------------- values
\* Python's None, for Worker.proc and Worker.conn (pids start at 1).
None == 0

\* What timeout() may be given.
SecondsValues == {-1, 0, 1}
DefaultValues == {-1}

\* What the wrapped function does with one argument x.  The function
\* increments a counter kept in its process (its execution context) and
\* then behaves as x says:
\*   ok            returns the counter, at once
\*   unpicklable   returns at once a value conn.send cannot pickle
\*   raiseValue    raises ValueError
\*   raiseTimeout  raises TimeoutError
\*   raiseSub      raises a subclass of TimeoutError
\*   exit          raises SystemExit (a BaseException, not an Exception)
\*   abort         os.abort(): the process dies
\*   slow          returns the counter, but only after the deadline
\*   hang          never returns
\*   deaf          sets SIGTERM to SIG_IGN and never returns
Args == {"ok", "unpicklable", "raiseValue", "raiseTimeout", "raiseSub",
         "exit", "abort", "slow", "hang", "deaf"}

\* The arguments the threads of the concurrent specification call with.
ThreadArgs == {"ok", "raiseValue", "slow", "hang"}

\* The arguments the caller of Worker's methods calls wrapper with.
WorkerArgs == {"ok", "raiseValue", "slow", "hang"}

\* The methods of Worker a caller that holds the object may invoke.
Methods == {"ensure_started", "kill", "restart"}

\* The exception a raising behaviour raises.
Raised(x) ==
    CASE x = "raiseValue" -> "ValueError"
      [] x = "raiseTimeout" -> "TimeoutError"
      [] x = "raiseSub" -> "SubTimeoutError"
      [] OTHER -> "NoError"

\* isinstance(e, TimeoutError): what `except TimeoutError` catches.
IsTimeoutError(e) == e \in {"TimeoutError", "SubTimeoutError"}

\* The function timeout() decorates, after deco has wrapped it in safe_fn.
safe_fn == "safe_fn"

\* A pickle that does not hold safe_fn.
DumpsSomethingElse(f) == [pickled |-> "other"]

\* cloudpickle.dumps(f), and cloudpickle.loads of such a byte string.
Dumps(f) == [pickled |-> f]
Loads(b) == b.pickled

\* No byte string: Worker does not exist yet.
NoBytes == [pickled |-> "none"]

\* The "STOP" control message and a request (fn_bytes, args, kwargs); `id`
\* and `th` name the guarded call and the caller thread that sent it.
StopMsg == [id |-> 0, th |-> 0, x |-> "STOP", fn |-> NoBytes]
Request(i, t, a, b) == [id |-> i, th |-> t, x |-> a, fn |-> b]
NoRequest == [id |-> 0, th |-> 0, x |-> "none", fn |-> NoBytes]

\* The response (success, payload); `id` names the request it answers.
Ok(v, r) == [ok |-> TRUE, val |-> v, err |-> "NoError", id |-> r.id]
Err(e, r) == [ok |-> FALSE, val |-> 0, err |-> e, id |-> r.id]

\* What a guarded call gave its caller.
NoOutcome == [kind |-> "none", val |-> 0, err |-> "NoError", id |-> 0]
Returned(v, i) == [kind |-> "payload", val |-> v, err |-> "NoError", id |-> i]
ReturnedDefault(d) == [kind |-> "default", val |-> d, err |-> "NoError", id |-> 0]
RaisedTo(e) == [kind |-> "raised", val |-> 0, err |-> e, id |-> 0]

\* A pending exception in wrapper: its type and the statement that raised it.
NoExc == [type |-> "NoError", at |-> "none"]
Exc(e, where) == [type |-> e, at |-> where]

VARIABLES
    seconds,     \* timeout()'s first argument
    default,     \* timeout()'s second argument
    guard,       \* "new", "invalid" (ValueError), "deco" (timeout returned),
                 \* "wrapped" (deco returned), "gone" (the parent process is dead)
    fn_bytes,    \* Worker.fn_bytes: the pickled function
    proc,        \* Worker.proc: a pid or None
    conn,        \* Worker.conn: the pipe of that pid, or None
    spawned,     \* processes started so far; the next pid is spawned + 1
    wstate,      \* per pid: "none", "listening", "running", "dead"
    cur,         \* per pid: the request the process is executing
    ctr,         \* per pid: the counter in the process's execution context
    loads,       \* per pid: the times the process has run cloudpickle.loads(fn_bytes)
    inbox,       \* per pid: messages sent by the parent, not yet received
    outbox,      \* per pid: responses sent by the worker, not yet received
    pclosed,     \* per pid: the parent's end of the pipe has been closed
    pc,          \* per thread: the statement the caller thread is at
    op,          \* per thread: what it called: "wrapper", or a method of Worker
    arg,         \* per thread: the argument of its guarded call
    req,         \* per thread: the id of its guarded call
    exc,         \* per thread: the exception wrapper caught
    outcome,     \* per thread: what its last guarded call gave the caller
    calls,       \* calls of wrapper and of Worker's methods begun so far
    fres,        \* per thread: what the function did in the worker for this call
    served,      \* per thread: the pid that executed this call's request
    prev,        \* per thread: the outcome of its call before this one, or the
                 \* method of Worker it called before this one
    afterTimeout, \* a call timed out and no call before the last has returned a payload since
    crashed,     \* the pids the environment killed
    overlap,     \* some guarded call began while another was in progress
    foreign      \* some call received the response to another call's request

\* ------------------------------------------------------------- loops: state
\* What repeat() and retry() may be given as n.
LoopNs == -1..MaxN

\* The arguments the decorated function is called with.
LoopArgs == {1, 2}

\* What one invocation of the decorated function does: it returns (the
\* number of the invocation, so that results can be told apart), raises an
\* Exception, or raises a BaseException that is no Exception
\* (KeyboardInterrupt, SystemExit).
FnResults == {"ret", "exc", "base"}

VARIABLES
    loopDeco,    \* the decorator applied: "repeat" or "retry"
    loopN,       \* its argument n
    loopState,   \* "new", "invalid" (ValueError), "wrapped" (deco returned wrapper)
    loopPc,      \* wrapper: "idle", "first", "loop", "done"
    loopI,       \* wrapper: iterations of the for loop begun
    loopArg,     \* wrapper: the argument it was called with
    invocations, \* the invocations of fn so far: argument and what fn did
    last,        \* repeat's wrapper: its local `last`
    loopOut      \* what wrapper gave its caller

loopVars == <<loopDeco, loopN, loopState, loopPc, loopI, loopArg, invocations, last, loopOut>>

\* What a wrapper of benchkit.loops gave its caller: the result of the
\* invocation numbered val, or the exception that invocation raised.
NoLoopOut == [kind |-> "none", val |-> 0, exn |-> "none"]
LoopReturned(k) == [kind |-> "returned", val |-> k, exn |-> "none"]
LoopRaised(k, r) == [kind |-> "raised", val |-> k, exn |-> r]

\* The state before repeat(n) or retry(n) is evaluated.
LoopsInit(decos, ns) ==
    /\ loopDeco \in decos
    /\ loopN \in ns
    /\ loopState = "new"
    /\ loopPc = "idle"
    /\ loopI = 0
    /\ loopArg = 0
    /\ invocations = <<>>
    /\ last = 0
    /\ loopOut = NoLoopOut

\* ------------------------------------------------------------- foreach: state
\* The parameter names of the decorated function that foreach() or the
\* caller may name.
ParamNames == {"a", "b"}

\* Lengths of the iterables given to foreach().
ColLens == 0..MaxRows

\* The i-th value of the iterable given for parameter x.
ColValue(x, i) == IF x = "a" THEN 10 + i ELSE 20 + i

\* A keyword argument's value when the caller passes it; Absent when not.
Absent == 0
CallerValue == 9

VARIABLES
    feModule,    \* "loops" (benchkit.loops.foreach) or "foreach" (benchkit.foreach.foreach)
    names,       \* foreach(**iters): the keys of iters
    cols,        \* per name: the length of its iterable (0 for a name not in iters)
    kwargs,      \* per name: the value the caller passes, or Absent
    fePc,        \* wrapper: "idle", "loop", "done"
    feRow,       \* wrapper: rows the zip has produced
    feCalls,     \* the invocations of fn: its keyword arguments and what it did
    feLast,      \* wrapper's local `last`: the number of the invocation, 0 while unset
    feOut        \* what wrapper gave its caller

feVars == <<feModule, names, cols, kwargs, fePc, feRow, feCalls, feLast, feOut>>

\* What foreach's wrapper gave its caller: the result of invocation val, or
\* an exception: "fn" (raised by fn), "ValueError", "UnboundLocalError".
NoFeOut == [kind |-> "none", val |-> 0, err |-> "none"]
FeReturned(k) == [kind |-> "returned", val |-> k, err |-> "none"]
FeRaised(e) == [kind |-> "raised", val |-> 0, err |-> e]

\* The state after foreach(**iters)(fn), before wrapper is called.
ForeachInit(modules, nameSets, lens, values) ==
    /\ feModule \in modules
    /\ names \in nameSets
    /\ cols \in [ParamNames -> lens]
    /\ \A x \in ParamNames \ names : cols[x] = 0
    /\ kwargs \in [ParamNames -> values]
    /\ fePc = "idle"
    /\ feRow = 0
    /\ feCalls = <<>>
    /\ feLast = 0
    /\ feOut = NoFeOut

\* ------------------------------------------------------------- cache: state
\* What benchkit.cache.cache() may be given as min_hits.
MinHitsValues == 0..MaxMinHits

\* The keys of the calls made: sha256 of the pickled (args, kwargs).
CacheKeys == {"k1", "k2"}

\* A row of the table `cache`; NoRow when the key has none.
NoRow == [present |-> FALSE, value |-> 0, count |-> 0]
Row(v, c) == [present |-> TRUE, value |-> v, count |-> c]

VARIABLES
    min_hits,    \* cache()'s argument
    table,       \* the table `cache` of the database file: per key a row or NoRow
    cacheLog     \* per key, one entry for each call of wrapper so far

cacheVars == <<min_hits, table, cacheLog>>

\* One call of wrapper, as the history records it: whether func was
\* executed, whether the call returned, and the value it returned.
Executed(v) == [ex |-> TRUE, ok |-> TRUE, val |-> v]
Failed == [ex |-> TRUE, ok |-> FALSE, val |-> 0]
Skipped(v) == [ex |-> FALSE, ok |-> TRUE, val |-> v]

\* cache(name, min_hits)(func) on a new database file.
CacheInit(hits) ==
    /\ min_hits \in hits
    /\ table = [k \in CacheKeys |-> NoRow]
    /\ cacheLog = [k \in CacheKeys |-> <<>>]

\* ------------------------------------------------------------- caching: state
\* ttl = None: entries never expire.
NoTtl == -1

\* What benchkit.caching.cache() may be given as ttl.
TtlValues == {NoTtl} \cup 0..MaxTtl

\* The inputs the cached function is called with: a tuple, a list with the
\* same items, and a number.
TtlInputs == {"(1, 2)", "[1, 2]", "3"}

\* wrapper: json.dumps(inputs, sort_keys=True, default=str), which writes a
\* tuple as it writes a list; the key is the sha256 of this text.
Canon(x) == IF x \in {"(1, 2)", "[1, 2]"} THEN "[1, 2]" ELSE x

TtlKeys == {Canon(x) : x \in TtlInputs}

\* A row of the table `cache`; NoEntry when the key has none.
NoEntry == [present |-> FALSE, value |-> 0, created_at |-> 0]
Entry(v, at) == [present |-> TRUE, value |-> v, created_at |-> at]

VARIABLES
    ttl,         \* cache()'s argument, NoTtl for None
    clock,       \* what time.time() returns
    entries,     \* the table `cache` of the database file: per key a row or NoEntry
    ttlLog       \* per key, one entry for each call of wrapper so far

ttlVars == <<ttl, clock, entries, ttlLog>>

\* One call of wrapper, as the history records it: its input, its reading of
\* the clock, whether inner_func was executed, whether the call returned,
\* and the value it returned.
TtlExecuted(x, now, v) == [x |-> x, now |-> now, ex |-> TRUE, ok |-> TRUE, val |-> v]
TtlFailed(x, now) == [x |-> x, now |-> now, ex |-> TRUE, ok |-> FALSE, val |-> 0]
TtlHit(x, now, v) == [x |-> x, now |-> now, ex |-> FALSE, ok |-> TRUE, val |-> v]

\* cache(ttl=...)(inner_func) on a new database file.
TtlInit(ttls) ==
    /\ ttl \in ttls
    /\ clock = 0
    /\ entries = [k \in TtlKeys |-> NoEntry]
    /\ ttlLog = [k \in TtlKeys |-> <<>>]

\* ------------------------------------------------------------- storage, runner: state
\* The input dictionaries a benchmark is run with: the same two items in
\* both orders, and another dictionary.
BenchInputs == {"x=1,y=2", "y=2,x=1", "x=3"}

\* compute_input_hash: sha256 of json.dumps(inputs, sort_keys=True), which
\* writes the items of a dictionary in the order of their keys.
ComputeInputHash(x) == IF x \in {"x=1,y=2", "y=2,x=1"} THEN "h(x=1,y=2)" ELSE "h(x=3)"

\* The Python type of the value a result has in its column "result".
OutTypes == {"int", "str"}

\* The row save_benchmark writes: the flattened data, with m_hash.
ResultRow(x, ty) == [m_hash |-> ComputeInputHash(x), ty |-> ty]

\* What load_benchmark gives: a DataFrame, or FileNotFoundError.
Frame(rows) == [ok |-> TRUE, rows |-> rows]
FileNotFound == [ok |-> FALSE, rows |-> <<>>]

\* The storage as optimize() found it: whether the directory existed, and
\* what load_benchmark gave.
Found(d, l) == [dir |-> d, ok |-> l.ok, rows |-> l.rows]

\* The sequences over S of length up to n.
SeqsUpTo(S, n) == UNION {[1..k -> S] : k \in 0..n}

\* The classes named ResultStorage: benchkit.storage's, and
\* benchkit.result_storage's, which run_benchmark_batch makes by default.
StorageClasses == {"storage", "result_storage"}

VARIABLES
    dir,         \* the benchmark's directory exists
    files,       \* its parquet files in the order glob lists them, each its rows
    stoOp,       \* the last operation: "none", "save", "optimize", "archive", "run"
    stoOut,      \* how it ended: "none", "returned" or the exception raised
    found,       \* after optimize: the storage as optimize() found it
    runTooFew,   \* after run_benchmark_batch: the inputs, in order, that had
                 \* fewer than `repeats` results when it was called
    runInvoked   \* after run_benchmark_batch: the inputs func was invoked with

stoVars == <<dir, files, stoOp, stoOut, found, runTooFew, runInvoked>>

\* The last operation was not optimize(), not run_benchmark_batch.
NoOptimize == found = Found(FALSE, FileNotFound)
NoRun == runTooFew = <<>> /\ runInvoked = <<>>

\* ResultStorage(db_path) on a new directory.
StorageInit ==
    /\ dir = FALSE
    /\ files = <<>>
    /\ stoOp = "none"
    /\ stoOut = "none"
    /\ NoOptimize
    /\ NoRun

\* The variables of the decorators a specification does not use.
libVars == <<loopVars, feVars, cacheVars, ttlVars, stoVars>>
LoopsIdle == LoopsInit({"repeat"}, {1})
ForeachIdle == ForeachInit({"loops"}, {{}}, {0}, {Absent})
CacheIdle == CacheInit({1})
TtlIdle == TtlInit({NoTtl})
LibInit == LoopsIdle /\ ForeachIdle /\ CacheIdle /\ TtlIdle /\ StorageInit

\* ------------------------------------------------------------- timeout: state
cfgVars == <<seconds, default, guard, fn_bytes>>
slotVars == <<proc, conn, spawned>>
procVars == <<wstate, cur, ctr, loads, inbox, outbox, pclosed>>
thrVars == <<pc, op, arg, req, exc, outcome, calls>>
histVars == <<fres, served, prev, afterTimeout, crashed, overlap, foreign>>
timeoutVars == <<cfgVars, slotVars, procVars, thrVars, histVars>>
vars == <<timeoutVars, libVars>>

\* The call before this one: what it gave the caller, the pid that executed
\* it, and the dead process it has left in the slot by now (or None).
NoPrev == [kind |-> "none", val |-> 0, err |-> "NoError", pid |-> 0, dead |-> 0]

\* What the function did in the worker, as the history records it.
NoResult == [k |-> "none", val |-> 0, err |-> "NoError"]
FunReturned(v) == [k |-> "returned", val |-> v, err |-> "NoError"]
FunRaised(e) == [k |-> "raised", val |-> 0, err |-> e]

\* ------------------------------------------------------------- Init
\* Nothing of benchkit.timeout has been evaluated yet.
NoGuard ==
    /\ guard = "new"
    /\ fn_bytes = NoBytes
    /\ proc = None
    /\ conn = None
    /\ spawned = 0
    /\ wstate = [p \in Pids |-> "none"]
    /\ cur = [p \in Pids |-> NoRequest]
    /\ ctr = [p \in Pids |-> 0]
    /\ loads = [p \in Pids |-> 0]
    /\ inbox = [p \in Pids |-> <<>>]
    /\ outbox = [p \in Pids |-> <<>>]
    /\ pclosed = [p \in Pids |-> FALSE]
    /\ pc = [t \in Threads |-> "idle"]
    /\ op = [t \in Threads |-> "none"]
    /\ arg = [t \in Threads |-> "none"]
    /\ req = [t \in Threads |-> 0]
    /\ exc = [t \in Threads |-> NoExc]
    /\ outcome = [t \in Threads |-> NoOutcome]
    /\ calls = 0
    /\ fres = [t \in Threads |-> NoResult]
    /\ served = [t \in Threads |-> None]
    /\ prev = [t \in Threads |-> NoPrev]
    /\ afterTimeout = FALSE
    /\ crashed = {}
    /\ overlap = FALSE
    /\ foreign = FALSE

Init ==
    /\ seconds \in SecondsValues
    /\ default \in DefaultValues
    /\ NoGuard
    /\ LibInit

\* timeout() is not used.
TimeoutInit == seconds = 1 /\ default = -1 /\ NoGuard

\* ------------------------------------------------------------- timeout, deco
\* A timeout() that lets a deadline of zero through.
InvalidSecondsNegativeOnly(s) == s < 0

\* timeout(): `if seconds <= 0: raise ValueError`.
InvalidSeconds(s) == s <= 0

\* timeout(seconds, default): raises ValueError or returns deco.
Timeout ==
    /\ guard = "new"
    /\ guard' = IF InvalidSeconds(seconds) THEN "invalid" ELSE "deco"
    /\ UNCHANGED <<libVars, seconds, default, fn_bytes, slotVars, procVars, thrVars, histVars>>

\* A deco that starts the worker process when it builds the Worker.
DecoStartsWorker ==
    /\ guard = "deco"
    /\ guard' = "wrapped"
    /\ fn_bytes' = Dumps(safe_fn)
    /\ proc' = 1
    /\ conn' = 1
    /\ spawned' = 1
    /\ wstate' = [wstate EXCEPT ![1] = "listening"]
    /\ UNCHANGED <<libVars, seconds, default, cur, ctr, loads, inbox, outbox, pclosed, thrVars, histVars>>

\* deco(fn): pickles the function and builds Worker(fn_bytes): conn and proc
\* are None, no process is started.
Deco ==
    /\ guard = "deco"
    /\ guard' = "wrapped"
    /\ fn_bytes' = Dumps(safe_fn)
    /\ proc' = None
    /\ conn' = None
    /\ UNCHANGED <<libVars, seconds, default, spawned, procVars, thrVars, histVars>>

\* ------------------------------------------------------------- processes
\* mp.Process.is_alive(): started and not yet exited.
IsAlive(p) == wstate[p] \in {"listening", "running"}

\* The process has set SIGTERM to SIG_IGN and sits in the function.
Deaf(p) == wstate[p] = "running" /\ cur[p].x = "deaf"

\* The history of the call a request belongs to, while that call is running.
Record(h, m, v) ==
    IF req[m.th] = m.id /\ pc[m.th] \notin {"idle", "gone"} THEN [h EXCEPT ![m.th] = v] ELSE h

\* The process exits: its memory and the unread messages of its pipe end go.
Exited(p) ==
    /\ wstate' = [wstate EXCEPT ![p] = "dead"]
    /\ cur' = [cur EXCEPT ![p] = NoRequest]
    /\ ctr' = [ctr EXCEPT ![p] = 0]
    /\ loads' = [loads EXCEPT ![p] = 0]
    /\ inbox' = [inbox EXCEPT ![p] = <<>>]

\* _worker_loop, one pass: conn.recv() returns a message, which is handled
\* up to the next conn.recv() unless the function does not come back at once.
\* Every request carries fn_bytes and the loop runs cloudpickle.loads on it
\* before the call, for each request anew.
WorkerRecv(p) ==
    /\ wstate[p] = "listening"
    /\ inbox[p] # <<>>
    /\ LET m == Head(inbox[p])
           n == ctr[p] + 1
       IN
       CASE m.x = "STOP" ->
              \* `if data == "STOP": return`
              /\ Exited(p)
              /\ UNCHANGED <<outbox, fres, served>>
         [] m.x \in {"exit", "abort"} ->
              \* SystemExit is no Exception: it leaves the loop; abort kills.
              /\ Exited(p)
              /\ served' = Record(served, m, p)
              /\ UNCHANGED <<outbox, fres>>
         [] m.x \in {"slow", "hang", "deaf"} ->
              /\ wstate' = [wstate EXCEPT ![p] = "running"]
              /\ cur' = [cur EXCEPT ![p] = m]
              /\ ctr' = [ctr EXCEPT ![p] = n]
              /\ loads' = [loads EXCEPT ![p] = @ + 1]
              /\ inbox' = [inbox EXCEPT ![p] = Tail(@)]
              /\ served' = Record(served, m, p)
              /\ UNCHANGED <<outbox, fres>>
         [] m.x \in {"ok", "unpicklable", "raiseValue", "raiseTimeout", "raiseSub"}
               /\ pclosed[p] ->
              \* conn.send raises BrokenPipeError, in the handler too.
              /\ Exited(p)
              /\ served' = Record(served, m, p)
              /\ UNCHANGED <<outbox, fres>>
         [] m.x = "ok" /\ ~pclosed[p] ->
              /\ ctr' = [ctr EXCEPT ![p] = n]
              /\ loads' = [loads EXCEPT ![p] = @ + 1]
              /\ inbox' = [inbox EXCEPT ![p] = Tail(@)]
              /\ outbox' = [outbox EXCEPT ![p] = Append(@, Ok(n, m))]
              /\ fres' = Record(fres, m, FunReturned(n))
              /\ served' = Record(served, m, p)
              /\ UNCHANGED <<wstate, cur>>
         [] m.x = "unpicklable" /\ ~pclosed[p] ->
              \* conn.send((True, result)) raises; `except Exception` answers.
              /\ ctr' = [ctr EXCEPT ![p] = n]
              /\ loads' = [loads EXCEPT ![p] = @ + 1]
              /\ inbox' = [inbox EXCEPT ![p] = Tail(@)]
              /\ outbox' = [outbox EXCEPT ![p] = Append(@, Err("PicklingError", m))]
              /\ fres' = Record(fres, m, FunReturned(n))
              /\ served' = Record(served, m, p)
              /\ UNCHANGED <<wstate, cur>>
         [] m.x \in {"raiseValue", "raiseTimeout", "raiseSub"} /\ ~pclosed[p] ->
              \* the function raised an Exception: `except Exception` answers.
              /\ ctr' = [ctr EXCEPT ![p] = n]
              /\ loads' = [loads EXCEPT ![p] = @ + 1]
              /\ inbox' = [inbox EXCEPT ![p] = Tail(@)]
              /\ outbox' = [outbox EXCEPT ![p] = Append(@, Err(Raised(m.x), m))]
              /\ fres' = Record(fres, m, FunRaised(Raised(m.x)))
              /\ served' = Record(served, m, p)
              /\ UNCHANGED <<wstate, cur>>
    /\ UNCHANGED <<libVars, cfgVars, slotVars, pclosed, thrVars, prev, afterTimeout, crashed, overlap, foreign>>

\* _worker_loop: a slow function returns at last and the result is sent.
WorkerFinish(p) ==
    /\ wstate[p] = "running"
    /\ cur[p].x = "slow"
    /\ IF pclosed[p]
       THEN /\ Exited(p)
            /\ UNCHANGED <<outbox, fres>>
       ELSE /\ wstate' = [wstate EXCEPT ![p] = "listening"]
            /\ cur' = [cur EXCEPT ![p] = NoRequest]
            /\ outbox' = [outbox EXCEPT ![p] = Append(@, Ok(ctr[p], cur[p]))]
            /\ fres' = Record(fres, cur[p], FunReturned(ctr[p]))
            /\ UNCHANGED <<ctr, loads, inbox>>
    /\ UNCHANGED <<libVars, cfgVars, slotVars, pclosed, thrVars, served, prev, afterTimeout, crashed, overlap, foreign>>

\* _worker_loop: conn.recv() raises EOFError, the loop returns.
WorkerEOF(p) ==
    /\ wstate[p] = "listening"
    /\ inbox[p] = <<>>
    /\ pclosed[p]
    /\ Exited(p)
    /\ UNCHANGED <<libVars, cfgVars, slotVars, outbox, pclosed, thrVars, histVars>>

\* The environment kills a worker process (SIGKILL, out of memory...).
WorkerCrash(p) ==
    /\ IsAlive(p)
    /\ Exited(p)
    /\ crashed' = crashed \cup {p}
    /\ UNCHANGED <<libVars, cfgVars, slotVars, outbox, pclosed, thrVars, fres, served, prev, afterTimeout, overlap, foreign>>

\* The environment kills the parent process: its ends of the pipes are
\* closed, and its threads and the Worker object are gone with its memory.
ParentDies ==
    /\ guard = "wrapped"
    /\ guard' = "gone"
    /\ pclosed' = [p \in Pids |-> wstate[p] # "none"]
    /\ outbox' = [p \in Pids |-> <<>>]
    /\ proc' = None
    /\ conn' = None
    /\ pc' = [t \in Threads |-> "gone"]
    /\ op' = [t \in Threads |-> "none"]
    /\ arg' = [t \in Threads |-> "none"]
    /\ req' = [t \in Threads |-> 0]
    /\ exc' = [t \in Threads |-> NoExc]
    /\ outcome' = [t \in Threads |-> NoOutcome]
    /\ fres' = [t \in Threads |-> NoResult]
    /\ served' = [t \in Threads |-> None]
    /\ prev' = [t \in Threads |-> NoPrev]
    /\ afterTimeout' = FALSE
    /\ overlap' = FALSE
    /\ foreign' = FALSE
    /\ UNCHANGED <<libVars, seconds, default, fn_bytes, spawned, wstate, cur, ctr, loads, inbox, calls, crashed>>

\* ------------------------------------------------------------- Worker
\* An ensure_started that looks only at whether the slot is empty.
NeedsStartWhenEmpty == proc = None

\* An ensure_started that starts a worker on every call.
NeedsStartAlways == TRUE

\* Worker.ensure_started: `self.proc is None or not self.proc.is_alive()`.
NeedsStart == IF proc = None THEN TRUE ELSE ~IsAlive(proc)

\* Worker._start_worker: a new pipe and a new process take the slot.  The
\* Connection the slot held before is dropped, which closes the parent's end.
StartWorker ==
    LET p == spawned + 1 IN
    /\ spawned' = p
    /\ conn' = p
    /\ proc' = p
    /\ wstate' = [wstate EXCEPT ![p] = "listening"]
    /\ pclosed' = IF conn # None THEN [pclosed EXCEPT ![conn] = TRUE] ELSE pclosed
    /\ outbox' = IF conn # None THEN [outbox EXCEPT ![conn] = <<>>] ELSE outbox
    /\ UNCHANGED <<cur, ctr, loads, inbox>>

\* A guarded call completes: control is back with the caller.
Complete(t, o) ==
    /\ pc' = [pc EXCEPT ![t] = "idle"]
    /\ outcome' = [outcome EXCEPT ![t] = o]
    /\ afterTimeout' = (afterTimeout \/ exc[t] = Exc("TimeoutError", "poll"))

\* A wrapper whose `except TimeoutError` handler forgets worker.restart().
HandlerPcKeepsWorkerOnTimeout(e) == IF IsTimeoutError(e) THEN "finish" ELSE "kill_stop"

\* Statement of wrapper an exception caught there leads to: both handlers,
\* `except TimeoutError` and `except Exception`, first call worker.restart().
HandlerPc(e) == "kill_stop"

\* A wrapper whose handlers all return default.
HandlerResultAlwaysDefault(e, d) == ReturnedDefault(d)

\* A wrapper that re-raises the TimeoutError instead of returning default.
HandlerResultRaises(e, d) == RaisedTo(e)

\* What a handler of wrapper gives the caller once restart() has returned:
\* `return default` for a TimeoutError, `raise` for any other Exception.
HandlerResult(e, d) == IF IsTimeoutError(e) THEN ReturnedDefault(d) ELSE RaisedTo(e)

\* The process in the slot if it is dead, else None.
DeadInSlot == IF proc = None THEN None ELSE IF IsAlive(proc) THEN None ELSE proc

\* An exception of type e is raised at statement `where` inside wrapper's try.
Raise(t, e, where) ==
    /\ exc' = [exc EXCEPT ![t] = Exc(e, where)]
    /\ pc' = [pc EXCEPT ![t] = HandlerPc(e)]

\* The caller invokes wrapper(x).
Call(t, x) ==
    /\ guard = "wrapped"
    /\ pc[t] = "idle"
    /\ calls' = calls + 1
    /\ pc' = [pc EXCEPT ![t] = "ensure"]
    /\ op' = [op EXCEPT ![t] = "wrapper"]
    /\ arg' = [arg EXCEPT ![t] = x]
    /\ req' = [req EXCEPT ![t] = calls + 1]
    /\ exc' = [exc EXCEPT ![t] = NoExc]
    /\ outcome' = [outcome EXCEPT ![t] = NoOutcome]
    /\ fres' = [fres EXCEPT ![t] = NoResult]
    /\ served' = [served EXCEPT ![t] = None]
    /\ prev' = [prev EXCEPT ![t] = [kind |-> IF op[t] \in Methods THEN op[t] ELSE outcome[t].kind,
                                     val |-> outcome[t].val, err |-> outcome[t].err,
                                     pid |-> served[t], dead |-> DeadInSlot]]
    /\ afterTimeout' = (afterTimeout /\ \A u \in Threads : outcome[u].kind # "payload")
    /\ overlap' = (overlap \/ \E u \in Threads : pc[u] # "idle")
    /\ UNCHANGED <<libVars, cfgVars, slotVars, procVars, crashed, foreign>>

\* The caller invokes worker.ensure_started(), worker.kill() or
\* worker.restart() on the Worker of the guard.
Method(t, m) ==
    /\ guard = "wrapped"
    /\ pc[t] = "idle"
    /\ calls' = calls + 1
    /\ pc' = [pc EXCEPT ![t] = IF m = "ensure_started" THEN "ensure" ELSE "kill_stop"]
    /\ op' = [op EXCEPT ![t] = m]
    /\ arg' = [arg EXCEPT ![t] = "none"]
    /\ req' = [req EXCEPT ![t] = calls + 1]
    /\ exc' = [exc EXCEPT ![t] = NoExc]
    /\ outcome' = [outcome EXCEPT ![t] = NoOutcome]
    /\ fres' = [fres EXCEPT ![t] = NoResult]
    /\ served' = [served EXCEPT ![t] = None]
    /\ prev' = [prev EXCEPT ![t] = [kind |-> IF op[t] \in Methods THEN op[t] ELSE outcome[t].kind,
                                     val |-> outcome[t].val, err |-> outcome[t].err,
                                     pid |-> served[t], dead |-> DeadInSlot]]
    /\ UNCHANGED <<libVars, cfgVars, slotVars, procVars, afterTimeout, crashed, overlap, foreign>>

\* Worker.ensure_started, and self.ensure_started() in Worker.call.
EnsureStarted(t) ==
    /\ pc[t] = "ensure"
    /\ pc' = [pc EXCEPT ![t] = IF op[t] = "ensure_started" THEN "idle" ELSE "send"]
    /\ IF NeedsStart
       THEN StartWorker
       ELSE UNCHANGED <<slotVars, procVars>>
    /\ UNCHANGED <<libVars, cfgVars, op, arg, req, exc, outcome, calls, histVars>>

\* Worker.call: `assert self.conn is not None`, then
\* self.conn.send((self.fn_bytes, args, kwargs)).
Send(t) ==
    /\ pc[t] = "send"
    /\ IF conn = None
       THEN /\ Raise(t, "AssertionError", "assert")
            /\ UNCHANGED inbox
       ELSE IF ~IsAlive(conn)
       THEN /\ Raise(t, "BrokenPipeError", "send")
            /\ UNCHANGED inbox
       ELSE /\ inbox' = [inbox EXCEPT ![conn] = Append(@, Request(req[t], t, arg[t], fn_bytes))]
            /\ pc' = [pc EXCEPT ![t] = "poll"]
            /\ UNCHANGED exc
    /\ UNCHANGED <<libVars, cfgVars, slotVars, wstate, cur, ctr, loads, outbox, pclosed,
                   op, arg, req, outcome, calls, histVars>>

\* Worker.call: self.conn.poll(timeout) returns False: the deadline passed
\* with nothing to read.  A listening worker with a message waiting answers
\* before the deadline, so the deadline passes only when none will.
PollTimeout(t) ==
    /\ pc[t] = "poll"
    /\ conn # None
    /\ outbox[conn] = <<>>
    /\ IsAlive(conn)
    /\ wstate[conn] = "running" \/ inbox[conn] = <<>>
    /\ Raise(t, "TimeoutError", "poll")
    /\ UNCHANGED <<libVars, cfgVars, slotVars, procVars, op, arg, req, outcome, calls, histVars>>

\* Worker.call: self.conn.poll(timeout) returns True: a response can be
\* read, or the worker's end is closed.  With conn None it raises.
PollReady(t) ==
    /\ pc[t] = "poll"
    /\ IF conn = None
       THEN Raise(t, "AttributeError", "poll")
       ELSE /\ outbox[conn] # <<>> \/ ~IsAlive(conn)
            /\ pc' = [pc EXCEPT ![t] = "recv"]
            /\ UNCHANGED exc
    /\ UNCHANGED <<libVars, cfgVars, slotVars, procVars, op, arg, req, outcome, calls, histVars>>

\* Worker.call: `return self.conn.recv()`, and wrapper's
\* `if success: return payload` / `raise payload`.
Recv(t) ==
    /\ pc[t] = "recv"
    /\ IF conn = None
       THEN /\ Raise(t, "AttributeError", "recv")
            /\ UNCHANGED <<outbox, outcome, afterTimeout, foreign>>
       ELSE IF outbox[conn] # <<>>
       THEN LET m == Head(outbox[conn]) IN
            /\ outbox' = [outbox EXCEPT ![conn] = Tail(@)]
            /\ foreign' = (foreign \/ m.id # req[t])
            /\ IF m.ok
               THEN /\ Complete(t, Returned(m.val, m.id))
                    /\ UNCHANGED exc
               ELSE /\ Raise(t, m.err, "payload")
                    /\ UNCHANGED <<outcome, afterTimeout>>
       ELSE /\ ~IsAlive(conn)
            /\ Raise(t, "EOFError", "recv")
            /\ UNCHANGED <<outbox, outcome, afterTimeout, foreign>>
    /\ UNCHANGED <<libVars, cfgVars, slotVars, wstate, cur, ctr, loads, inbox, pclosed,
                   op, arg, req, calls, fres, served, prev, crashed, overlap>>

\* Worker.kill: `if self.conn is not None: self.conn.send("STOP")`, an
\* exception of the send being ignored.
KillStop(t) ==
    /\ pc[t] = "kill_stop"
    /\ pc' = [pc EXCEPT ![t] = "kill_term"]
    /\ inbox' = IF conn # None /\ IsAlive(conn)
                THEN [inbox EXCEPT ![conn] = Append(@, StopMsg)]
                ELSE inbox
    /\ UNCHANGED <<libVars, cfgVars, slotVars, wstate, cur, ctr, loads, outbox, pclosed,
                   op, arg, req, exc, outcome, calls, histVars>>

\* Worker.kill: `if self.proc is not None: self.proc.terminate()`: SIGTERM
\* ends the process unless it ignores the signal.
KillTerminate(t) ==
    /\ pc[t] = "kill_term"
    /\ pc' = [pc EXCEPT ![t] = "kill_join"]
    /\ IF proc # None /\ IsAlive(proc) /\ ~Deaf(proc)
       THEN Exited(proc)
       ELSE UNCHANGED <<wstate, cur, ctr, loads, inbox>>
    /\ UNCHANGED <<libVars, cfgVars, slotVars, outbox, pclosed,
                   op, arg, req, exc, outcome, calls, histVars>>

\* A kill() without the join: it goes on while the process may still run.
JoinedWithoutWaiting(p) == TRUE

\* self.proc.join() returns: the process has exited.
Joined(p) == IF p = None THEN TRUE ELSE ~IsAlive(p)

\* A kill() that returns with conn and proc as they were.
KillJoinKeepsSlot(t) ==
    /\ pc[t] = "kill_join"
    /\ Joined(proc)
    /\ pc' = [pc EXCEPT ![t] = IF op[t] = "kill" THEN "idle" ELSE "start"]
    /\ UNCHANGED <<libVars, cfgVars, slotVars, procVars,
                   op, arg, req, exc, outcome, calls, histVars>>

\* Worker.kill: self.proc.join() (blocking), then conn and proc become None.
KillJoin(t) ==
    /\ pc[t] = "kill_join"
    /\ Joined(proc)
    /\ pc' = [pc EXCEPT ![t] = IF op[t] = "kill" THEN "idle" ELSE "start"]
    /\ conn' = None
    /\ proc' = None
    /\ pclosed' = IF conn # None THEN [pclosed EXCEPT ![conn] = TRUE] ELSE pclosed
    /\ outbox' = IF conn # None THEN [outbox EXCEPT ![conn] = <<>>] ELSE outbox
    /\ UNCHANGED <<libVars, cfgVars, spawned, wstate, cur, ctr, loads, inbox,
                   op, arg, req, exc, outcome, calls, histVars>>

\* Worker.restart: self._start_worker(), after self.kill(); then wrapper's
\* handler goes on.
Restart(t) ==
    /\ pc[t] = "start"
    /\ pc' = [pc EXCEPT ![t] = IF op[t] = "restart" THEN "idle" ELSE "finish"]
    /\ StartWorker
    /\ UNCHANGED <<libVars, cfgVars, op, arg, req, exc, outcome, calls, histVars>>

\* wrapper: the handler's last statement, `return default` or `raise`.
Finish(t) ==
    /\ pc[t] = "finish"
    /\ Complete(t, HandlerResult(exc[t].type, default))
    /\ UNCHANGED <<libVars, cfgVars, slotVars, procVars, op, arg, req, exc, calls,
                   fres, served, prev, crashed, overlap, foreign>>

\* ------------------------------------------------------------- specifications
\* Room for one more guarded call: a call starts at most two processes, one
\* in ensure_started and one in restart.
Room(maxCalls, maxPid) ==
    /\ calls < maxCalls
    /\ spawned + 2 * (Cardinality({u \in Threads : pc[u] # "idle"}) + 1) <= maxPid

\* The steps of a guarded call after its first, taken while the parent lives.
Wrapper(t) ==
    /\ guard = "wrapped"
    /\ \/ EnsureStarted(t)
       \/ Send(t)
       \/ PollTimeout(t)
       \/ PollReady(t)
       \/ Recv(t)
       \/ KillStop(t)
       \/ KillTerminate(t)
       \/ KillJoin(t)
       \/ Restart(t)
       \/ Finish(t)

WorkerLoop(p) ==
    \/ WorkerRecv(p)
    \/ WorkerFinish(p)
    \/ WorkerEOF(p)

\* One caller: the guarded calls are sequential.
Next ==
    \/ Timeout
    \/ Deco
    \/ \E x \in Args : Room(MaxCalls, MaxPid) /\ Call(1, x)
    \/ Wrapper(1)
    \/ \E p \in Pids : WorkerLoop(p)
    \/ \E p \in Pids : WorkerCrash(p)
    \/ ParentDies

Spec == Init /\ [][Next]_vars

\* Several caller threads invoke the same wrapper.
NextThreads ==
    \/ Timeout
    \/ Deco
    \/ \E t \in Threads : \E x \in ThreadArgs : Room(MaxThreadCalls, MaxThreadPid) /\ Call(t, x)
    \/ \E t \in Threads : Wrapper(t)
    \/ \E p \in Pids : WorkerLoop(p)
    \/ ParentDies

SpecThreads == Init /\ [][NextThreads]_vars

\* One caller that also holds the Worker and calls its methods, one call
\* at a time.
NextWorker ==
    \/ Timeout
    \/ Deco
    \/ \E x \in WorkerArgs : Room(MaxWorkerCalls, MaxWorkerPid) /\ Call(1, x)
    \/ \E m \in Methods : Room(MaxWorkerCalls, MaxWorkerPid) /\ Method(1, m)
    \/ Wrapper(1)
    \/ \E p \in Pids : WorkerLoop(p)
    \/ \E p \in Pids : WorkerCrash(p)
    \/ ParentDies

SpecWorker == Init /\ [][NextWorker]_vars

\* ------------------------------------------------------------- loops: repeat, retry
\* fn(*args, **kwargs) is invoked and does r.
Invoke(r) == invocations' = Append(invocations, [a |-> loopArg, r |-> r])

\* The invocation just made returned: wrapper returns its result.
LoopReturn(k) ==
    /\ loopOut' = LoopReturned(k)
    /\ loopPc' = "done"

\* The invocation just made raised and nothing caught it.
LoopPropagate(k, r) ==
    /\ loopOut' = LoopRaised(k, r)
    /\ loopPc' = "done"

\* repeat(), retry(): `if n < 1: raise ValueError`.
TooFew(n) == n < 1

\* repeat(n)(fn): ValueError, or deco(fn) returns wrapper.
Repeat ==
    /\ loopDeco = "repeat"
    /\ loopState = "new"
    /\ loopState' = IF TooFew(loopN) THEN "invalid" ELSE "wrapped"
    /\ UNCHANGED <<timeoutVars, stoVars, feVars, cacheVars, ttlVars, loopDeco, loopN, loopPc, loopI, loopArg, invocations, last, loopOut>>

\* retry(n)(fn): ValueError, or deco(fn) returns wrapper.
Retry ==
    /\ loopDeco = "retry"
    /\ loopState = "new"
    /\ loopState' = IF TooFew(loopN) THEN "invalid" ELSE "wrapped"
    /\ UNCHANGED <<timeoutVars, stoVars, feVars, cacheVars, ttlVars, loopDeco, loopN, loopPc, loopI, loopArg, invocations, last, loopOut>>

\* The caller invokes wrapper(a).
LoopCall(a) ==
    /\ loopState = "wrapped"
    /\ loopPc = "idle"
    /\ loopArg' = a
    /\ loopPc' = IF loopDeco = "repeat" THEN "first" ELSE "loop"
    /\ UNCHANGED <<timeoutVars, stoVars, feVars, cacheVars, ttlVars, loopDeco, loopN, loopState, loopI, invocations, last, loopOut>>

\* repeat's wrapper: `last = fn(*args, **kwargs)`, before the loop.
RepeatFirst(r) ==
    /\ loopDeco = "repeat"
    /\ loopPc = "first"
    /\ Invoke(r)
    /\ IF r = "ret"
       THEN /\ last' = Len(invocations) + 1
            /\ loopPc' = "loop"
            /\ UNCHANGED loopOut
       ELSE /\ LoopPropagate(Len(invocations) + 1, r)
            /\ UNCHANGED last
    /\ UNCHANGED <<timeoutVars, stoVars, feVars, cacheVars, ttlVars, loopDeco, loopN, loopState, loopI, loopArg>>

\* A loop that runs n times after the first invocation.
RepeatMoreOneTooMany(n) == n

\* repeat's wrapper: `for _ in range(n - 1)`.
RepeatMore(n) == n - 1

\* repeat's wrapper: `last = fn(*args, **kwargs)`, in the loop.
RepeatNext(r) ==
    /\ loopDeco = "repeat"
    /\ loopPc = "loop"
    /\ loopI < RepeatMore(loopN)
    /\ loopI' = loopI + 1
    /\ Invoke(r)
    /\ IF r = "ret"
       THEN /\ last' = Len(invocations) + 1
            /\ UNCHANGED <<loopPc, loopOut>>
       ELSE /\ LoopPropagate(Len(invocations) + 1, r)
            /\ UNCHANGED last
    /\ UNCHANGED <<timeoutVars, stoVars, feVars, cacheVars, ttlVars, loopDeco, loopN, loopState, loopArg>>

\* repeat's wrapper: the loop is over, `return last`.
RepeatReturn ==
    /\ loopDeco = "repeat"
    /\ loopPc = "loop"
    /\ loopI >= RepeatMore(loopN)
    /\ LoopReturn(last)
    /\ UNCHANGED <<timeoutVars, stoVars, feVars, cacheVars, ttlVars, loopDeco, loopN, loopState, loopI, loopArg, invocations, last>>

\* retry's wrapper: `for _ in range(n - 1)`, the attempts made inside try.
RetryTries(n) == n - 1

\* retry's wrapper: `except Exception: pass`.
Swallowed(r) == r = "exc"

\* retry's wrapper: `return fn_(*args, **kwargs)` inside try, in the loop.
RetryAttempt(r) ==
    /\ loopDeco = "retry"
    /\ loopPc = "loop"
    /\ loopI < RetryTries(loopN)
    /\ loopI' = loopI + 1
    /\ Invoke(r)
    /\ IF r = "ret"
       THEN LoopReturn(Len(invocations) + 1)
       ELSE IF Swallowed(r)
       THEN UNCHANGED <<loopPc, loopOut>>
       ELSE LoopPropagate(Len(invocations) + 1, r)
    /\ UNCHANGED <<timeoutVars, stoVars, feVars, cacheVars, ttlVars, loopDeco, loopN, loopState, loopArg, last>>

\* retry's wrapper: the final `return fn_(*args, **kwargs)`, outside try.
RetryFinal(r) ==
    /\ loopDeco = "retry"
    /\ loopPc = "loop"
    /\ loopI >= RetryTries(loopN)
    /\ Invoke(r)
    /\ IF r = "ret"
       THEN LoopReturn(Len(invocations) + 1)
       ELSE LoopPropagate(Len(invocations) + 1, r)
    /\ UNCHANGED <<timeoutVars, stoVars, feVars, cacheVars, ttlVars, loopDeco, loopN, loopState, loopI, loopArg, last>>

NextLoops ==
    \/ Repeat
    \/ Retry
    \/ \E a \in LoopArgs : LoopCall(a)
    \/ \E r \in FnResults : RepeatFirst(r)
    \/ \E r \in FnResults : RepeatNext(r)
    \/ RepeatReturn
    \/ \E r \in FnResults : RetryAttempt(r)
    \/ \E r \in FnResults : RetryFinal(r)

InitLoops == TimeoutInit /\ LoopsInit({"repeat", "retry"}, LoopNs) /\ ForeachIdle /\ CacheIdle /\ TtlIdle /\ StorageInit

SpecLoops == InitLoops /\ [][NextLoops]_vars

\* ------------------------------------------------------------- foreach
\* wrapper: `all(n in kwargs for n in names)`.
AllFixed == \A x \in names : kwargs[x] # Absent

\* wrapper: call_kwargs for the row numbered i: dict(kwargs), then
\* setdefault(n, v) for every name, which keeps a value the caller passed.
CallKwargs(i) ==
    [x \in ParamNames |->
        IF x \in names /\ kwargs[x] = Absent THEN ColValue(x, i) ELSE kwargs[x]]

\* fn(*args, **kw) is invoked and does r.
FeInvoke(kw, r) == feCalls' = Append(feCalls, [kw |-> kw, r |-> r])

\* wrapper: the caller fixed every name, `return fn(*args, **kwargs)`.
ForeachSingle(r) ==
    /\ fePc = "idle"
    /\ AllFixed
    /\ FeInvoke(kwargs, r)
    /\ fePc' = "done"
    /\ feOut' = IF r = "ret" THEN FeReturned(1) ELSE FeRaised("fn")
    /\ UNCHANGED <<timeoutVars, stoVars, loopVars, cacheVars, ttlVars, feModule, names, cols, kwargs, feRow, feLast>>

\* wrapper: the caller left a name open, the loop over the rows begins.
ForeachEnter ==
    /\ fePc = "idle"
    /\ ~AllFixed
    /\ fePc' = "loop"
    /\ UNCHANGED <<timeoutVars, stoVars, loopVars, cacheVars, ttlVars, feModule, names, cols, kwargs, feRow, feCalls, feLast, feOut>>

\* zip(*cols, strict=True) has another row: every iterable has an item left.
HasRow == \A x \in names : cols[x] > feRow

\* zip(*cols, strict=True) ends: every iterable is exhausted.
Exhausted == \A x \in names : cols[x] = feRow

\* wrapper: one pass of `for row in zip(*cols, strict=True)`.
ForeachRow(r) ==
    /\ fePc = "loop"
    /\ HasRow
    /\ feRow' = feRow + 1
    /\ FeInvoke(CallKwargs(feRow + 1), r)
    /\ IF r = "ret"
       THEN /\ feLast' = Len(feCalls) + 1
            /\ UNCHANGED <<fePc, feOut>>
       ELSE /\ fePc' = "done"
            /\ feOut' = FeRaised("fn")
            /\ UNCHANGED feLast
    /\ UNCHANGED <<timeoutVars, stoVars, loopVars, cacheVars, ttlVars, feModule, names, cols, kwargs>>

\* wrapper: zip finds one iterable exhausted and another not: ValueError.
ForeachZipError ==
    /\ fePc = "loop"
    /\ ~HasRow /\ ~Exhausted
    /\ fePc' = "done"
    /\ feOut' = FeRaised("ValueError")
    /\ UNCHANGED <<timeoutVars, stoVars, loopVars, cacheVars, ttlVars, feModule, names, cols, kwargs, feRow, feCalls, feLast>>

\* What wrapper does after a loop that had no row.  benchkit.loops:
\* `if last is unset: raise ValueError`; benchkit.foreach: `return last`
\* with `last` never assigned, an UnboundLocalError.
NoRows(module) == IF module = "loops" THEN "ValueError" ELSE "UnboundLocalError"

\* wrapper: the loop is over, `return last`.
ForeachEnd ==
    /\ fePc = "loop"
    /\ Exhausted
    /\ fePc' = "done"
    /\ feOut' = IF feLast = 0 THEN FeRaised(NoRows(feModule)) ELSE FeReturned(feLast)
    /\ UNCHANGED <<timeoutVars, stoVars, loopVars, cacheVars, ttlVars, feModule, names, cols, kwargs, feRow, feCalls, feLast>>

NextForeach ==
    \/ \E r \in {"ret", "exc"} : ForeachSingle(r)
    \/ ForeachEnter
    \/ \E r \in {"ret", "exc"} : ForeachRow(r)
    \/ ForeachZipError
    \/ ForeachEnd

InitForeach ==
    /\ TimeoutInit
    /\ LoopsIdle
    /\ ForeachInit({"loops", "foreach"}, {{}, {"a"}, {"a", "b"}}, ColLens, {Absent, CallerValue})
    /\ CacheIdle
    /\ TtlIdle
    /\ StorageInit

SpecForeach == InitForeach /\ [][NextForeach]_vars

\* ------------------------------------------------------------- cache (min_hits)
\* A wrapper that skips only after min_hits executions.
HitStrictly(count, hits) == count > hits

\* wrapper: `if count >= min_hits`, the stored value is returned.
Hit(count, hits) == count >= hits

\* wrapper, called with arguments of key k; func, if executed, does r and
\* would return v.  A row that exists has its count incremented and
\* committed before anything else; a row is inserted with count 1 or has
\* its value replaced only when func returns.
CacheWrapper(k, r, v) ==
    LET row == table[k]
        count == row.count + 1
    IN
    /\ IF row.present /\ Hit(count, min_hits)
       THEN /\ table' = [table EXCEPT ![k] = Row(row.value, count)]
            /\ cacheLog' = [cacheLog EXCEPT ![k] = Append(@, Skipped(row.value))]
       ELSE IF r = "ret"
       THEN /\ table' = [table EXCEPT ![k] = IF row.present THEN Row(v, count) ELSE Row(v, 1)]
            /\ cacheLog' = [cacheLog EXCEPT ![k] = Append(@, Executed(v))]
       ELSE /\ table' = [table EXCEPT ![k] = IF row.present THEN Row(row.value, count) ELSE NoRow]
            /\ cacheLog' = [cacheLog EXCEPT ![k] = Append(@, Failed)]
    /\ UNCHANGED <<timeoutVars, stoVars, loopVars, feVars, ttlVars, min_hits>>

\* The calls of wrapper made so far, over all keys.
CacheCalls == Len(cacheLog["k1"]) + Len(cacheLog["k2"])

\* The caller calls the cached function; func returns the number of the
\* call by which results are told apart.
CacheCall(k, r) ==
    /\ CacheCalls < MaxCacheCalls
    /\ CacheWrapper(k, r, Len(cacheLog[k]) + 1)

NextCache == \E k \in CacheKeys : \E r \in {"ret", "exc"} : CacheCall(k, r)

InitCache == TimeoutInit /\ LoopsIdle /\ ForeachIdle /\ CacheInit(MinHitsValues) /\ TtlIdle /\ StorageInit

SpecCache == InitCache /\ [][NextCache]_vars

\* ------------------------------------------------------------- caching (ttl)
\* A wrapper for which an entry as old as ttl is still fresh.
FreshInclusive(now, created_at, t) == t = NoTtl \/ now - created_at <= t

\* wrapper: `if ttl is None or (now - created_at) < ttl`, the entry is used.
Fresh(now, created_at, t) == t = NoTtl \/ now - created_at < t

\* wrapper, called with input x at time `now`; inner_func, if executed, does
\* r after d ticks of the clock and would return v.  The row is written with
\* INSERT OR REPLACE only when inner_func returns, and with the time read
\* before the execution.
TtlWrapper(x, now, r, d, v) ==
    LET key == Canon(x)
        row == entries[key]
    IN
    /\ IF row.present /\ Fresh(now, row.created_at, ttl)
       THEN /\ ttlLog' = [ttlLog EXCEPT ![key] = Append(@, TtlHit(x, now, row.value))]
            /\ UNCHANGED <<entries, clock>>
       ELSE /\ clock' = now + d
            /\ IF r = "ret"
               THEN /\ entries' = [entries EXCEPT ![key] = Entry(v, now)]
                    /\ ttlLog' = [ttlLog EXCEPT ![key] = Append(@, TtlExecuted(x, now, v))]
               ELSE /\ ttlLog' = [ttlLog EXCEPT ![key] = Append(@, TtlFailed(x, now))]
                    /\ UNCHANGED entries
    /\ UNCHANGED <<timeoutVars, stoVars, loopVars, feVars, cacheVars, ttl>>

\* The calls of wrapper made so far, over all keys.
TtlCalls == Len(ttlLog["[1, 2]"]) + Len(ttlLog["3"])

\* The caller calls the cached function; inner_func returns the number of
\* the call by which results are told apart.
TtlCall(x, r, d) ==
    /\ TtlCalls < MaxTtlCalls
    /\ clock + d <= MaxTime
    /\ TtlWrapper(x, clock, r, d, Len(ttlLog[Canon(x)]) + 1)

\* Time passes between two calls.
Tick ==
    /\ clock < MaxTime
    /\ clock' = clock + 1
    /\ UNCHANGED <<timeoutVars, stoVars, loopVars, feVars, cacheVars, ttl, entries, ttlLog>>

NextTtl ==
    \/ \E x \in TtlInputs : \E r \in {"ret", "exc"} : \E d \in {0, 1} : TtlCall(x, r, d)
    \/ Tick

InitTtl == TimeoutInit /\ LoopsIdle /\ ForeachIdle /\ CacheIdle /\ TtlInit(TtlValues) /\ StorageInit

SpecTtl == InitTtl /\ [][NextTtl]_vars

\* ------------------------------------------------------------- storage
\* pd.concat(dfs, ignore_index=True): the rows of every file, file by file.
RECURSIVE Concat(_)
Concat(fs) == IF fs = <<>> THEN <<>> ELSE Head(fs) \o Concat(Tail(fs))

\* ResultStorage.load_benchmark: FileNotFoundError without the directory
\* and without parquet files in it, else the rows of all files.
LoadBenchmark ==
    IF ~dir THEN FileNotFound
    ELSE IF files = <<>> THEN FileNotFound
    ELSE Frame(Concat(files))

\* ResultStorage.is_empty: `not self._get_parquet_files(bench_name)`.
IsEmpty == files = <<>>

\* ResultStorage.num_results_with_inputs: the rows whose m_hash is the hash
\* of these inputs.
NumResultsWithInputs(x) ==
    IF IsEmpty
    THEN 0
    ELSE Len(SelectSeq(LoadBenchmark.rows, LAMBDA r : r.m_hash = ComputeInputHash(x)))

\* df.to_parquet(file_path, index=False) raises: the column "result" holds
\* values of different Python types, which has no Arrow type.
ToParquetRaises(rows) == \E i, j \in 1..Len(rows) : rows[i].ty # rows[j].ty

\* ResultStorage.save_benchmark: one new file with one row, in the
\* directory that _add_parquet_file makes if it is not there.
SaveBenchmark(x, ty) ==
    /\ Len(Concat(files)) < MaxSaves
    /\ dir' = TRUE
    /\ files' = Append(files, <<ResultRow(x, ty)>>)
    /\ stoOp' = "save"
    /\ stoOut' = "returned"
    /\ found' = Found(FALSE, FileNotFound)
    /\ runTooFew' = <<>>
    /\ runInvoked' = <<>>
    /\ UNCHANGED <<timeoutVars, loopVars, feVars, cacheVars, ttlVars>>

\* ResultStorage.optimize: load_benchmark; on FileNotFoundError a warning and
\* return; else every parquet file is unlinked and then the combined rows
\* are written to one new file.
Optimize ==
    LET l == LoadBenchmark IN
    /\ stoOp' = "optimize"
    /\ found' = Found(dir, l)
    /\ IF ~l.ok
       THEN /\ stoOut' = "returned"
            /\ UNCHANGED files
       ELSE IF ToParquetRaises(l.rows)
       THEN /\ stoOut' = "ArrowInvalid"
            /\ files' = <<>>
       ELSE /\ stoOut' = "returned"
            /\ files' = <<l.rows>>
    /\ runTooFew' = <<>>
    /\ runInvoked' = <<>>
    /\ UNCHANGED <<timeoutVars, loopVars, feVars, cacheVars, ttlVars, dir>>

\* ResultStorage.archive: the parquet files are moved to the archive
\* directory; the benchmark's directory stays.
Archive ==
    /\ stoOp' = "archive"
    /\ stoOut' = "returned"
    /\ files' = <<>>
    /\ found' = Found(FALSE, FileNotFound)
    /\ runTooFew' = <<>>
    /\ runInvoked' = <<>>
    /\ UNCHANGED <<timeoutVars, loopVars, feVars, cacheVars, ttlVars, dir>>

\* ------------------------------------------------------------- runner
\* The parameters of benchkit.benchmark.save_benchmark, and the keywords
\* run_benchmark_batch calls it with.
SaveBenchmarkParams == {"_func", "serializers", "result_path", "repeat"}
RunnerKeywords == {"bench_name", "serializers", "storage", "repeat", "num_retries"}

\* How a run of run_benchmark_batch ends, and the inputs func was invoked with.
RunResult(out, invoked) == [out |-> out, invoked |-> invoked]

\* run_benchmark_batch, the loop over inputs: an input with
\* `existing_results >= repeats` is skipped, safe_func is called with the
\* others.  benchkit.result_storage's class has no num_results_with_inputs.
RunLoop(ins, r, cls) ==
    IF ins = <<>> THEN RunResult("returned", <<>>)
    ELSE IF cls = "result_storage" THEN RunResult("AttributeError", <<>>)
    ELSE RunResult("returned", SelectSeq(ins, LAMBDA x : ~(NumResultsWithInputs(x) >= r)))

\* run_benchmark_batch(func, inputs, storage=..., repeats=r): the call of
\* save_benchmark raises TypeError for a keyword that is no parameter of
\* it, before the loop; else the loop runs.
RunBenchmarkBatch(ins, r, cls) ==
    LET res == IF RunnerKeywords \subseteq SaveBenchmarkParams
               THEN RunLoop(ins, r, cls)
               ELSE RunResult("TypeError", <<>>)
    IN
    /\ stoOp' = "run"
    /\ stoOut' = res.out
    /\ runInvoked' = res.invoked
    /\ runTooFew' = SelectSeq(ins, LAMBDA x : NumResultsWithInputs(x) < r)
    /\ found' = Found(FALSE, FileNotFound)
    /\ UNCHANGED <<timeoutVars, loopVars, feVars, cacheVars, ttlVars, dir, files>>

NextStorage ==
    \/ \E x \in BenchInputs : \E ty \in OutTypes : SaveBenchmark(x, ty)
    \/ Optimize
    \/ Archive
    \/ \E ins \in SeqsUpTo(BenchInputs, MaxInputs) : \E r \in 0..MaxRepeats :
           \E cls \in StorageClasses : RunBenchmarkBatch(ins, r, cls)

InitStorage == TimeoutInit /\ LoopsIdle /\ ForeachIdle /\ CacheIdle /\ TtlIdle /\ StorageInit

SpecStorage == InitStorage /\ [][NextStorage]_vars

\* ------------------------------------------------------------- claims
\* A guarded call of thread t has given control back to its caller.
Done(t) == pc[t] = "idle" /\ outcome[t].kind # "none"

C2_CalleeErrorIsRaised ==
    \A t \in Threads :
        Done(t) /\ fres[t].k = "raised" => outcome[t] = RaisedTo(fres[t].err)

\* C3: a guarded call whose poll passed the deadline without a response
\* returns default: it raises nothing and returns no value of the worker.
C3_TimeoutReturnsDefault ==
    \A t \in Threads :
        Done(t) /\ exc[t] = Exc("TimeoutError", "poll")
            => outcome[t] = ReturnedDefault(default)

\* A call timed out although its function returned a value, too late.
C3_Witness ==
    Done(1) /\ exc[1] = Exc("TimeoutError", "poll") /\ fres[1].k = "returned"

\* The steps the program itself can take: those of the caller and of the
\* worker processes, not those of the environment.
Progress == Wrapper(1) \/ \E p \in Pids : WorkerLoop(p)

\* C4: every guarded call gives control back to its caller, whatever the
\* function does: a caller inside wrapper is never left in a state where
\* neither it nor a worker can take a step, also not in kill()'s join.
C4_CallerRegainsControl ==
    pc[1] \notin {"idle", "gone"} => ENABLED Progress

\* C5: a guarded call whose recv found the worker's end closed raises (and
\* never returns default), the slot then holds a process started after the
\* dead one, and the next call with an argument the function returns on at
\* once returns the function's value, unless that worker is killed as well.
C5_CrashIsRaisedAndRecovered ==
    \A t \in Threads :
        /\ Done(t) /\ exc[t] = Exc("EOFError", "recv")
               => /\ outcome[t] = RaisedTo("EOFError")
                  /\ proc # None
                  /\ served[t] # None => proc > served[t]
                  /\ IsAlive(proc) \/ proc \in crashed
        /\ Done(t) /\ prev[t].err = "EOFError" /\ arg[t] = "ok"
               => \/ /\ outcome[t].kind = "payload"
                     /\ fres[t].k = "returned"
                     /\ outcome[t].val = fres[t].val
                  \/ /\ exc[t].type \in {"EOFError", "BrokenPipeError"}
                     /\ crashed # {}

\* The function killed its own process, the call raised, and the next call
\* on the same guard returned the function's value.
C5_Witness ==
    /\ Done(1) /\ prev[1].err = "EOFError" /\ prev[1].pid # None
    /\ arg[1] = "ok" /\ outcome[1].kind = "payload"
    /\ crashed = {}

\* C6: when the function raised and the worker answered Err, the worker is
\* neither killed nor replaced: after the call the slot holds the process
\* that executed it, listening, with the state the function left there.
C6_WorkerSurvivesCalleeError ==
    \A t \in Threads :
        Done(t) /\ fres[t].k = "raised" /\ exc[t].at = "payload"
            => /\ proc = served[t]
               /\ \/ proc \in crashed
                  \/ wstate[proc] = "listening" /\ ctr[proc] > 0

C8_AtMostOneLiveWorker ==
    Cardinality({p \in Pids : IsAlive(p)}) <= 1

\* A replacement is alive in the slot after a timed-out call's restart.
C8_Witness ==
    /\ spawned >= 2 /\ proc # None /\ IsAlive(proc)
    /\ pc[1] = "finish" /\ exc[1] = Exc("TimeoutError", "poll")

\* C9: with seconds <= 0, timeout() raises ValueError before anything is
\* wrapped: no Worker object, no process, no guarded call; with seconds > 0
\* it does not raise.
C9_NonPositiveSecondsRejected ==
    /\ seconds <= 0
           => /\ guard \in {"new", "invalid"}
              /\ proc = None /\ conn = None /\ spawned = 0 /\ calls = 0
              /\ \A t \in Threads : pc[t] = "idle"
    /\ seconds > 0 => guard # "invalid"

\* timeout(0, default) has raised ValueError.
C9_Witness == seconds = 0 /\ guard = "invalid"

\* The requests sent on the slot's pipe and not yet answered to a caller.
InFlight ==
    IF conn = None
    THEN 0
    ELSE Len(SelectSeq(inbox[conn], LAMBDA m : m.x # "STOP"))
         + (IF wstate[conn] = "running" THEN 1 ELSE 0)
         + Len(outbox[conn])

\* Every caller that was given a payload was given the response to its own
\* request.
OwnResponses ==
    \A t \in Threads : Done(t) /\ outcome[t].kind = "payload" => outcome[t].id = req[t]

\* C10 (as claimed): for every interleaving of caller threads at most one
\* request is in flight on the worker's pipe, and no caller receives the
\* response to another caller's request.
C10_SingleRequestInFlight == InFlight <= 1 /\ OwnResponses

\* C10 (amended): the same, as long as no guarded call has begun while
\* another was in progress.
C10_SequentialSingleRequestInFlight == ~overlap => InFlight <= 1 /\ OwnResponses

\* A second sequential call has its request in flight, alone.
C10_Witness ==
    ~overlap /\ calls = 2 /\ InFlight = 1 /\ \E t \in Threads : pc[t] = "poll" /\ req[t] = 2

\* C11: when a guarded call has timed out and its handler is about to give
\* control back (or has), the worker that executed the call is dead and its
\* pipe is closed and empty; the slot holds a process started after it, on
\* its own pipe, which is empty until the next call sends; between kill()
\* and _start_worker() the slot is empty and the old process already dead;
\* and the call after a timed-out one is served by a later process only.
C11_TimeoutReplacesWorker ==
    \A t \in Threads :
        /\ exc[t] = Exc("TimeoutError", "poll") /\ pc[t] = "start"
               => /\ served[t] # None /\ ~IsAlive(served[t])
                  /\ proc = None /\ conn = None
                  /\ spawned = served[t]
        /\ exc[t] = Exc("TimeoutError", "poll") /\ (pc[t] = "finish" \/ Done(t))
               => /\ served[t] # None /\ ~IsAlive(served[t])
                  /\ pclosed[served[t]]
                  /\ inbox[served[t]] = <<>> /\ outbox[served[t]] = <<>>
                  /\ proc = served[t] + 1 /\ conn = proc
                  /\ IsAlive(proc) \/ proc \in crashed
                  /\ ~pclosed[proc]
                  /\ inbox[proc] = <<>> /\ outbox[proc] = <<>>
        /\ afterTimeout /\ prev[t].kind = "default" /\ served[t] # None
               => served[t] > prev[t].pid

\* The handler of a timed-out call is about to return: the worker that hung
\* in the call is dead, its pipe closed, and its successor listens.
C11_Witness ==
    /\ pc[1] = "finish" /\ exc[1] = Exc("TimeoutError", "poll") /\ arg[1] = "hang"
    /\ served[1] = 1 /\ wstate[1] = "dead" /\ pclosed[1]
    /\ proc = 2 /\ conn = 2 /\ wstate[2] = "listening" /\ inbox[2] = <<>>

\* The requests waiting in the pipe of process p.
Queued(p) == SelectSeq(inbox[p], LAMBDA m : m.x # "STOP")

C18_ReconstructedOnce ==
    \A p \in Pids : loads[p] <= 1

\* The responses in the pipe of process p that answer the request of thread t.
Answers(p, t) == SelectSeq(outbox[p], LAMBDA m : m.id = req[t])

\* C19: once the invocation for a request the loop received has returned or
\* raised, whatever it raised, the loop has sent exactly one response for
\* it, Ok when the invocation returned a value that can be sent and Err
\* otherwise, and listens again: no error of the invocation ends the loop.
\* (os.abort() and a kill from outside end the process, they raise nothing.)
C19_EveryRequestAnswered ==
    \A t \in Threads :
        /\ pc[t] \in {"poll", "recv"}
        /\ served[t] # None
        /\ served[t] \notin crashed
        /\ arg[t] # "abort"
        /\ wstate[served[t]] # "running"
        => /\ wstate[served[t]] = "listening"
           /\ Len(Answers(served[t], t)) = 1
           /\ Answers(served[t], t)[1].ok <=> arg[t] \in {"ok", "slow"}

\* C20: a worker's loop ends only on STOP or on finding the parent's end of
\* the pipe closed: a process that is dead while the parent still holds its
\* pipe open was sent STOP by a kill() in progress (or was killed, from
\* outside or by os.abort()); and a dead process executes no request and
\* has none waiting.
C20_ExitsOnlyOnStopOrEOF ==
    \A p \in Pids :
        /\ wstate[p] = "dead" /\ ~pclosed[p] /\ p \notin crashed
               => \E t \in Threads :
                      \/ pc[t] \in {"kill_term", "kill_join"}
                      \/ served[t] = p /\ arg[t] = "abort"
        /\ wstate[p] = "dead" => cur[p] = NoRequest /\ inbox[p] = <<>>

\* A wrapper of benchkit.loops has given control back to its caller.
LoopDone == loopPc = "done"

\* The invocations made so far, and what the last of them did.
Invoked == Len(invocations)
LastResult == invocations[Invoked].r

\* C12: retry(n) with n < 1 raises ValueError at decoration time.  Otherwise
\* an attempt that raises an Exception is followed by another, up to n
\* retries after the first attempt: when wrapper raises an Exception, all
\* n + 1 attempts were made, all raised, and the exception is the last
\* attempt's; when it returns, it returns the value of the only attempt
\* that did not raise, which is the last one made.
C12_RetryRetriesNTimes ==
    loopDeco = "retry"
        => /\ loopN < 1 => loopState \in {"new", "invalid"} /\ invocations = <<>>
           /\ loopN >= 1 => loopState # "invalid"
           /\ \A i \in 1..Invoked : i < Invoked => invocations[i].r = "exc"
           /\ LoopDone /\ loopOut.kind = "returned"
                  => /\ LastResult = "ret"
                     /\ loopOut.val = Invoked
                     /\ Invoked <= loopN + 1
           /\ LoopDone /\ loopOut.kind = "raised"
                  => /\ LastResult # "ret"
                     /\ loopOut = LoopRaised(Invoked, LastResult)
                     /\ LastResult = "exc" => Invoked = loopN + 1

\* C16: repeat(n) with n < 1 raises ValueError at decoration time.  Otherwise
\* wrapper invokes fn with its own argument each time; an invocation that
\* raises is the last one and its exception is what wrapper raises; when
\* none raises, wrapper returns after exactly n invocations, with the
\* result of the n-th.
C16_RepeatInvokesNTimes ==
    loopDeco = "repeat"
        => /\ loopN < 1 => loopState \in {"new", "invalid"} /\ invocations = <<>>
           /\ loopN >= 1 => loopState # "invalid"
           /\ Invoked <= loopN \/ Invoked = 0
           /\ \A i \in 1..Invoked :
                  /\ invocations[i].a = loopArg
                  /\ i < Invoked => invocations[i].r = "ret"
           /\ Invoked > 0 /\ LastResult # "ret"
                  => LoopDone /\ loopOut = LoopRaised(Invoked, LastResult)
           /\ LoopDone /\ LastResult = "ret"
                  => Invoked = loopN /\ loopOut = LoopReturned(loopN)

\* repeat(3)(fn)(a) has returned the result of the third invocation.
C16_Witness ==
    /\ loopDeco = "repeat" /\ loopN = 3 /\ LoopDone
    /\ Invoked = 3 /\ loopOut = LoopReturned(3)

\* The rows the iterables given to foreach() have in common.
Rows == IF names = {} THEN 0 ELSE CHOOSE k \in ColLens : \A x \in names : cols[x] >= k /\ \E y \in names : cols[y] = k

\* No invocation of fn by foreach's wrapper has raised.
NoneRaised == \A i \in 1..Len(feCalls) : feCalls[i].r = "ret"

\* C15: when the caller passes every name of foreach(), fn is invoked once,
\* with the caller's keyword arguments, and its result is wrapper's.
\* Otherwise the i-th invocation gets the i-th row's values for the names
\* the caller left open and the caller's values for the others; an
\* invocation that raises ends the call; and when none raises the call
\* raises ValueError if the iterables differ in length or have no row, and
\* else returns the result of the last of as many invocations as rows.
C15_ForeachCallsPerRow ==
    /\ \A i \in 1..Len(feCalls) :
           /\ feCalls[i].kw = (IF AllFixed THEN kwargs ELSE CallKwargs(i))
           /\ i < Len(feCalls) => feCalls[i].r = "ret"
    /\ fePc = "done" /\ ~NoneRaised => feOut = FeRaised("fn")
    /\ fePc = "done" /\ NoneRaised /\ AllFixed
           => Len(feCalls) = 1 /\ feOut = FeReturned(1)
    /\ fePc = "done" /\ NoneRaised /\ ~AllFixed
           => /\ Len(feCalls) = Rows
              /\ feOut = IF (\E x \in names : cols[x] # Rows) \/ Rows = 0
                         THEN FeRaised("ValueError")
                         ELSE FeReturned(Rows)

\* The number of the first call with key k whose execution returned, or one
\* more than the calls made when there is none yet.
FirstStored(k) ==
    LET done == {i \in 1..Len(cacheLog[k]) : cacheLog[k][i].ex /\ cacheLog[k][i].ok}
    IN IF done = {} THEN Len(cacheLog[k]) + 1
       ELSE CHOOSE i \in done : \A j \in done : i <= j

\* The value in the row of key k before its i-th call: that of the latest
\* execution that returned before it.
StoredBefore(k, i) ==
    LET done == {j \in 1..(i - 1) : cacheLog[k][j].ex /\ cacheLog[k][j].ok}
    IN cacheLog[k][CHOOSE j \in done : \A h \in done : h <= j].val

\* C13 (as claimed): for min_hits = N >= 1 and every key whose calls have
\* all returned, func is executed on the calls 1 .. N-1 and on no call from
\* the N-th on.
C13_ExecutedBeforeNthCall ==
    min_hits >= 1
        => \A k \in CacheKeys :
               (\A i \in 1..Len(cacheLog[k]) : cacheLog[k][i].ok)
                   => \A i \in 1..Len(cacheLog[k]) : cacheLog[k][i].ex <=> i < min_hits

\* C13 (amended): for every key, func is executed on every call up to the
\* first one, f, whose execution returns (f = 1 unless func raises), then
\* on the calls f+1 .. f+N-2, and on no call from f+N-1 on; a call that
\* does not execute func returns the value the latest execution returned.
C13_ExecutedUntilCountReachesN ==
    \A k \in CacheKeys : \A i \in 1..Len(cacheLog[k]) :
        /\ cacheLog[k][i].ex <=> (i <= FirstStored(k) \/ i - FirstStored(k) + 1 < min_hits)
        /\ ~cacheLog[k][i].ex
               => cacheLog[k][i].ok /\ cacheLog[k][i].val = StoredBefore(k, i)

\* min_hits = 3, no execution raised: func ran on the calls 1 and 2 and the
\* calls 3 and 4 returned what call 2 had returned.
C13_Witness ==
    /\ min_hits = 3
    /\ cacheLog["k1"] = <<Executed(1), Executed(2), Skipped(2), Skipped(2)>>

\* The calls with key k before the i-th whose execution returned: the ones
\* that wrote the row.
Stores(k, i) == {j \in 1..(i - 1) : ttlLog[k][j].ex /\ ttlLog[k][j].ok}

\* The latest of them.
LastStore(k, i) == CHOOSE j \in Stores(k, i) : \A h \in Stores(k, i) : h <= j

\* A call returns the stored value without executing inner_func exactly
\* when an entry for its canonicalized input exists and ttl is None or the
\* entry is younger than ttl; the value is that of the latest execution that
\* returned, and the entry's age counts from that execution's own reading
\* of the clock.
HitExactlyWhenFresh ==
    \A k \in TtlKeys : \A i \in 1..Len(ttlLog[k]) :
        LET c == ttlLog[k][i] IN
        /\ ~c.ex <=> /\ Stores(k, i) # {}
                     /\ ttl = NoTtl \/ c.now - ttlLog[k][LastStore(k, i)].now < ttl
        /\ ~c.ex => c.ok /\ c.val = ttlLog[k][LastStore(k, i)].val

\* The executions of inner_func for input x.
ExecutionsOf(x) == {i \in 1..Len(ttlLog[Canon(x)]) : ttlLog[Canon(x)][i].ex /\ ttlLog[Canon(x)][i].x = x}

\* C14 (as claimed): hits are exactly the calls that find a fresh entry;
\* with ttl = None inner_func is executed at most once per input; and a
\* call that finds its entry expired executes inner_func and leaves the
\* entry with the new value and the new creation time.
C14_TtlCache ==
    /\ HitExactlyWhenFresh
    /\ ttl = NoTtl => \A x \in TtlInputs : Cardinality(ExecutionsOf(x)) <= 1
    /\ \A k \in TtlKeys :
           LET n == Len(ttlLog[k]) IN
           n > 0 /\ ttlLog[k][n].ex /\ Stores(k, n) # {}
               => entries[k] = Entry(ttlLog[k][n].val, ttlLog[k][n].now) /\ ttlLog[k][n].ok

\* C14 (amended): the same, with an execution that raises storing nothing:
\* with ttl = None at most one execution per key returns and none follows
\* it; and the row is always what the latest execution that returned wrote,
\* its value and the time that call read before executing.
C14_TtlCacheOfReturnedValues ==
    /\ HitExactlyWhenFresh
    /\ ttl = NoTtl
           => \A k \in TtlKeys : \A i \in 1..Len(ttlLog[k]) :
                  ttlLog[k][i].ex => Stores(k, i) = {}
    /\ \A k \in TtlKeys :
           LET n == Len(ttlLog[k]) + 1 IN
           entries[k] = IF Stores(k, n) = {} THEN NoEntry
                        ELSE Entry(ttlLog[k][LastStore(k, n)].val, ttlLog[k][LastStore(k, n)].now)

\* ttl = 1: an execution at time 0, a hit at time 0 for the list with the
\* same items, and at time 1 the entry has expired and is replaced.
C14_Witness ==
    /\ ttl = 1
    /\ ttlLog["[1, 2]"] = <<TtlExecuted("(1, 2)", 0, 1), TtlHit("[1, 2]", 0, 1), TtlExecuted("(1, 2)", 1, 3)>>
    /\ entries["[1, 2]"] = Entry(3, 1)

\* C21: with sequential callers no call ever receives the response to
\* another call's request: a payload returned answers the call's own
\* request, an error raised from a response is what the function did for
\* this very call, and a response exists only in the pipe of the slot and
\* only while the call it answers is in progress, so that one produced
\* after its call timed out goes with the old pipe.
C21_ResponseAnswersOwnRequest ==
    /\ ~foreign
    /\ \A t \in Threads :
           /\ Done(t) /\ outcome[t].kind = "payload"
                  => outcome[t].id = req[t] /\ fres[t] = FunReturned(outcome[t].val)
           /\ exc[t].at = "payload"
                  => \/ fres[t] = FunRaised(exc[t].type)
                     \/ arg[t] = "unpicklable" /\ fres[t].k = "returned"
    /\ \A p \in Pids :
           outbox[p] # <<>>
               => /\ p = conn
                  /\ \A i \in 1..Len(outbox[p]) :
                         \E t \in Threads : pc[t] \notin {"idle", "gone"} /\ outbox[p][i].id = req[t]

\* The worker answered after the poll had timed out, and kill() has dropped
\* the pipe with the late response in it.
C21_Witness ==
    /\ pc[1] = "start" /\ exc[1] = Exc("TimeoutError", "poll")
    /\ fres[1].k = "returned" /\ arg[1] = "slow"
    /\ \A p \in Pids : outbox[p] = <<>>

\* STOP waits in the pipe of process p.
StopQueued(p) == \E i \in 1..Len(inbox[p]) : inbox[p][i] = StopMsg

\* C22: kill() has sent STOP to a worker that is still alive when it comes
\* to terminate(); past terminate() only a process that ignores SIGTERM is
\* still alive; and when kill() has returned the slot is empty, no process
\* of the guard is alive and every pipe is released, so that restart()
\* starts the replacement only after the old process has been joined.
C22_KillTerminatesAndJoins ==
    \A t \in Threads :
        /\ pc[t] = "kill_term" /\ conn # None /\ IsAlive(conn) => StopQueued(conn)
        /\ pc[t] = "kill_join" /\ proc # None /\ IsAlive(proc) => Deaf(proc)
        /\ pc[t] = "start"
               => /\ proc = None /\ conn = None
                  /\ \A p \in Pids : ~IsAlive(p)
                  /\ \A p \in 1..spawned : wstate[p] = "dead" /\ pclosed[p] /\ outbox[p] = <<>>

\* kill() has returned in the handler of a call whose function raised: the
\* worker that answered is dead, the slot empty.
C22_Witness ==
    /\ pc[1] = "start" /\ exc[1] = Exc("ValueError", "payload")
    /\ spawned = 1 /\ wstate[1] = "dead" /\ pclosed[1]
    /\ proc = None /\ conn = None

\* C23: ensure_started() leaves the slot and every process as they are when
\* the slot holds a live process, and otherwise starts one new process with
\* a new pipe and puts both in the slot; in either case the slot holds a
\* live process when it returns, so that a second ensure_started() right
\* after it changes nothing.
C23_EnsureStartedIdempotent ==
    [][\A t \in Threads :
           pc[t] = "ensure" /\ pc'[t] \in {"send", "idle"}
               => /\ IF proc # None /\ IsAlive(proc)
                     THEN UNCHANGED <<slotVars, procVars>>
                     ELSE /\ spawned' = spawned + 1
                          /\ proc' = spawned' /\ conn' = spawned'
                          /\ wstate[spawned'] = "none"
                          /\ inbox'[spawned'] = <<>> /\ outbox'[spawned'] = <<>>
                          /\ ~pclosed'[spawned']
                          /\ \A p \in Pids \ {spawned'} : wstate'[p] = wstate[p]
                  /\ proc' # None /\ conn' = proc' /\ wstate'[proc'] = "listening"]_vars

\* ensure_started() was called twice in a row on a new Worker: the first
\* call started process 1, the second left it in the slot.
C23_Witness ==
    /\ pc[1] = "idle" /\ op[1] = "ensure_started" /\ prev[1].kind = "ensure_started"
    /\ calls = 2 /\ spawned = 1 /\ proc = 1 /\ conn = 1 /\ IsAlive(1)

\* C24: from the moment deco has built the Worker, fn_bytes is the pickle of
\* the decorated function, whatever calls, timeouts, errors, crashes and
\* restarts have happened since; every request in a pipe and every request
\* a process is executing carries this pickle, in a replacement process as
\* in the first one.
C24_SameFunctionBytes ==
    /\ guard \in {"new", "invalid", "deco"} => fn_bytes = NoBytes
    /\ guard = "wrapped" => Loads(fn_bytes) = safe_fn
    /\ \A p \in Pids :
           /\ \A i \in 1..Len(inbox[p]) :
                  inbox[p][i] # StopMsg => Loads(inbox[p][i].fn) = safe_fn
           /\ wstate[p] = "running" => Loads(cur[p].fn) = safe_fn

\* The second call runs in the replacement that restart() started after the
\* first call timed out: process 2 executes the pickled function.
C24_Witness ==
    /\ pc[1] = "poll" /\ calls = 2 /\ prev[1].kind = "default"
    /\ proc = 2 /\ wstate[1] = "dead" /\ wstate[2] = "running"
    /\ cur[2].fn = fn_bytes /\ Loads(fn_bytes) = safe_fn

\* C25: no process is started and no pipe is opened before the first guarded
\* call: while timeout() and deco run, and as long as wrapper has not been
\* called, proc and conn are None.  The first call starts process 1 in
\* ensure_started, before its request is sent: a request is only ever in the
\* pipe of a started process, and the first call sends to process 1.
C25_LazyStart ==
    /\ calls = 0 => spawned = 0 /\ proc = None /\ conn = None
    /\ \A p \in Pids :
           wstate[p] = "none" => inbox[p] = <<>> /\ outbox[p] = <<>> /\ ~pclosed[p]
    /\ \A t \in Threads :
           /\ pc[t] = "ensure" /\ calls = 1 => spawned = 0 /\ proc = None /\ conn = None
           /\ pc[t] = "send" /\ calls = 1
                  => spawned = 1 /\ proc = 1 /\ conn = 1 /\ wstate[1] # "none" /\ inbox[1] = <<>>
           /\ pc[t] \in {"poll", "recv"} => spawned >= 1 /\ conn # None

\* The first guarded call has started process 1 and is about to send its
\* request.
C25_Witness ==
    /\ pc[1] = "send" /\ calls = 1 /\ arg[1] = "ok"
    /\ spawned = 1 /\ proc = 1 /\ conn = 1 /\ wstate[1] = "listening" /\ inbox[1] = <<>>

\* The requests of call i that process p holds, waiting or in execution.
Holds(p, i) ==
    \/ \E k \in 1..Len(inbox[p]) : inbox[p][k].id = i
    \/ wstate[p] = "running" /\ cur[p].id = i

\* C28: a guarded call that finds a dead process in the slot when it begins
\* goes on with a process started for it: past ensure_started the slot holds
\* the newest process, not the dead one, and the request is in no other
\* process's hands; when its function returns at once and the new process
\* has executed it, the call returns the value the function returned,
\* neither default nor an error of the dead process.
C28_DeadWorkerReplaced ==
    \A t \in Threads :
        prev[t].dead # None
            => /\ pc[t] \in {"send", "poll", "recv"}
                      => /\ proc = spawned /\ conn = spawned
                         /\ proc # prev[t].dead
                         /\ wstate[prev[t].dead] = "dead"
                         /\ \A p \in Pids \ {conn} : ~Holds(p, req[t])
               /\ served[t] # None => served[t] # prev[t].dead
               /\ Done(t) /\ arg[t] = "ok" /\ served[t] # None
                      => /\ outcome[t].kind = "payload"
                         /\ fres[t] = FunReturned(outcome[t].val)
                         /\ exc[t] = NoExc

\* The first call returned from process 1, which then died; the second call
\* returned the function's value from process 2.
C28_Witness ==
    /\ Done(1) /\ calls = 2 /\ arg[1] = "ok"
    /\ prev[1].kind = "payload" /\ prev[1].pid = 1 /\ prev[1].dead = 1
    /\ 1 \in crashed
    /\ served[1] = 2 /\ outcome[1].kind = "payload" /\ proc = 2

\* The statements of kill().
InKill(t) == pc[t] \in {"kill_stop", "kill_term", "kill_join"}

\* C29: kill() called on the Worker raises nothing and starts no process;
\* it does not wait in join() when the slot is empty or holds a dead
\* process; when it has returned the slot is empty and no process of the
\* guard is alive.  A kill() right after a kill() changes neither the slot
\* nor any process.  A guarded call after kill() finds the slot empty,
\* starts the newest process for itself and, when its function returns at
\* once and that process has executed it, returns the function's value.
C29_KillSafeAndIdempotent ==
    /\ [](\A t \in Threads :
              /\ op[t] = "kill" => exc[t] = NoExc /\ outcome[t] = NoOutcome
              /\ op[t] = "kill" /\ pc[t] = "kill_join" /\ DeadInSlot = proc => Joined(proc)
              /\ op[t] = "kill" /\ pc[t] = "idle"
                     => proc = None /\ conn = None /\ \A p \in Pids : ~IsAlive(p)
              /\ op[t] = "wrapper" /\ prev[t].kind = "kill"
                     => /\ pc[t] = "ensure" => proc = None /\ conn = None
                        /\ pc[t] \in {"send", "poll", "recv"}
                               => proc = spawned /\ conn = spawned /\ ~pclosed[conn]
                        /\ Done(t) /\ arg[t] = "ok" /\ served[t] # None
                               => /\ outcome[t].kind = "payload"
                                  /\ fres[t] = FunReturned(outcome[t].val)
                                  /\ exc[t] = NoExc)
    /\ [][\A t \in Threads :
              op[t] = "kill" /\ InKill(t) /\ pc'[t] # pc[t]
                  => /\ spawned' = spawned
                     /\ prev[t].kind = "kill" => UNCHANGED <<slotVars, procVars>>]_vars

\* kill() was called twice on a Worker that had never started a process;
\* the guarded call after them returned the function's value from process 1.
C29_Witness ==
    /\ Done(1) /\ calls = 3 /\ op[1] = "wrapper" /\ prev[1].kind = "kill"
    /\ arg[1] = "ok" /\ outcome[1].kind = "payload"
    /\ spawned = 1 /\ served[1] = 1

\* C26: run_benchmark_batch has invoked the function with exactly the
\* inputs, in their order, for which the storage held fewer than `repeats`
\* results with that input's hash when it was called: it skips the others
\* and goes on with the inputs after a skipped one.
C26_InvokedExactlyWhenTooFew ==
    stoOp = "run" => runInvoked = runTooFew

\* C27: optimize() raises nothing; when it found results, load_benchmark
\* gives the same rows after it as before and one parquet file is left;
\* when it found none, there are still none and the directory is as it was.
C27_OptimizePreservesRows ==
    stoOp = "optimize"
        => /\ stoOut = "returned"
           /\ found.ok => LoadBenchmark = Frame(found.rows) /\ Len(files) = 1
           /\ ~found.ok => files = <<>> /\ dir = found.dir

====
